---- MODULE Spec2Model ----
(***************************************************************************)
(* Model of the MLB batting-average dashboard:                             *)
(*   MlbStatsClient      (fetch, fallback, normalisation)                  *)
(*   BattingVisualizer   (chart handle, container, legend, table)          *)
(*   the page controller (fetchAndVisualizeData, toggleLoading)            *)
(*                                                                         *)
(* JavaScript values are records [t, n, s]: t is the type tag, n the       *)
(* numeric value in thousandths (0.329 is 329, 432 is 432000), s the text  *)
(* of a string.  NaN is a number-typed value with its own tag.             *)
(***************************************************************************)
EXTENDS Integers, Sequences, FiniteSets, TLC

\* ------------------------------------------------------------------ bounds
MaxRows == 3
MaxFetches == 2

\* ------------------------------------------------------------ JS values
Undef == [t |-> "undefined", n |-> 0, s |-> ""]
Null == [t |-> "null", n |-> 0, s |-> ""]
NaN == [t |-> "NaN", n |-> 0, s |-> ""]
Num(n) == [t |-> "number", n |-> n, s |-> ""]
Str(s) == [t |-> "string", n |-> 0, s |-> s]

\* typeof v === 'number' and not NaN
IsFiniteNumber(v) == v.t = "number"
IsString(v) == v.t = "string"

\* ToBoolean: undefined, null, NaN, 0 and "" are falsy
Truthy(v) ==
    CASE v.t = "undefined" -> FALSE
      [] v.t = "null" -> FALSE
      [] v.t = "NaN" -> FALSE
      [] v.t = "number" -> v.n # 0
      [] v.t = "string" -> v.s # ""
      [] OTHER -> TRUE

\* a || b
Or(a, b) == IF Truthy(a) THEN a ELSE b

Digits == {"0", "1", "2", "3", "4", "5", "6", "7", "8", "9"}

DigitVal(c) ==
    CASE c = "0" -> 0 [] c = "1" -> 1 [] c = "2" -> 2 [] c = "3" -> 3
      [] c = "4" -> 4 [] c = "5" -> 5 [] c = "6" -> 6 [] c = "7" -> 7
      [] c = "8" -> 8 [] c = "9" -> 9

RECURSIVE SkipSpaces(_)
SkipSpaces(s) ==
    IF Len(s) > 0 /\ Head(s) = " " THEN SkipSpaces(Tail(s)) ELSE s

\* the longest prefix of s made of digits
RECURSIVE DigitPrefix(_)
DigitPrefix(s) ==
    IF Len(s) > 0 /\ Head(s) \in Digits
    THEN Head(s) \o DigitPrefix(Tail(s))
    ELSE ""

\* value of a digit string read as an integer
RECURSIVE IntOfDigits(_, _)
IntOfDigits(s, acc) ==
    IF Len(s) = 0 THEN acc
    ELSE IntOfDigits(Tail(s), acc * 10 + DigitVal(Head(s)))

\* value, in thousandths, of a digit string read as a fraction (".3" is 300);
\* digits after the third are below the model's resolution
FracOfDigits(s) ==
    LET d(i) == IF Len(s) >= i THEN DigitVal(Head(SubSeq(s, i, i))) ELSE 0
    IN  d(1) * 100 + d(2) * 10 + d(3)

SignOf(s) == IF Len(s) > 0 /\ Head(s) = "-" THEN -1 ELSE 1
DropSign(s) == IF Len(s) > 0 /\ Head(s) \in {"+", "-"} THEN Tail(s) ELSE s

\* parseFloat on a string: leading blanks, a sign, digits, '.', digits; the
\* rest of the string is ignored; no digits at all gives NaN.
ParseFloatStr(str) ==
    LET s0 == SkipSpaces(str)
        s1 == DropSign(s0)
        ip == DigitPrefix(s1)
        r1 == SubSeq(s1, Len(ip) + 1, Len(s1))
        fp == IF Len(r1) > 0 /\ Head(r1) = "." THEN DigitPrefix(Tail(r1)) ELSE ""
    IN  IF Len(ip) = 0 /\ Len(fp) = 0 THEN NaN
        ELSE Num(SignOf(s0) * (IntOfDigits(ip, 0) * 1000 + FracOfDigits(fp)))

\* parseInt(string, 10): leading blanks, a sign, digits; no digits gives NaN.
ParseIntStr(str) ==
    LET s0 == SkipSpaces(str)
        s1 == DropSign(s0)
        ip == DigitPrefix(s1)
    IN  IF Len(ip) = 0 THEN NaN
        ELSE Num(SignOf(s0) * IntOfDigits(ip, 0) * 1000)

\* parseFloat(v): v is converted to a string first (undefined, null and NaN
\* give text without digits; a finite number reads back as itself)
ParseFloat(v) ==
    CASE v.t = "string" -> ParseFloatStr(v.s)
      [] v.t = "number" -> v
      [] OTHER -> NaN

\* integer part of n thousandths, truncated toward zero
Trunc(n) == IF n >= 0 THEN (n \div 1000) * 1000 ELSE -((-n \div 1000) * 1000)

\* parseInt(v, 10): the decimal text of a finite number is cut at its '.'
ParseInt(v) ==
    CASE v.t = "string" -> ParseIntStr(v.s)
      [] v.t = "number" -> Num(Trunc(v.n))
      [] OTHER -> NaN


\* ------------------------------------------------- payloads (JSON bodies)
\* A split row of the API shape: kind "object", "null" (a null or undefined
\* row) or "primitive" (a number or boolean row, whose property reads give
\* undefined).  Sub-objects carry has = FALSE when the row lacks them.
NoPlayer == [has |-> FALSE, id |-> Undef, fullName |-> Undef, lastName |-> Undef, name |-> Undef]
NoTeam == [has |-> FALSE, name |-> Undef]
NoStat ==
    [has |-> FALSE, avg |-> Undef, battingAverage |-> Undef, atBats |-> Undef,
     hits |-> Undef, homeRuns |-> Undef, rbi |-> Undef]

Player(id, full, last, nm) ==
    [has |-> TRUE, id |-> id, fullName |-> full, lastName |-> last, name |-> nm]
Team(nm) == [has |-> TRUE, name |-> nm]
Stat(avg, ba, ab, h, hr, rbi) ==
    [has |-> TRUE, avg |-> avg, battingAverage |-> ba, atBats |-> ab,
     hits |-> h, homeRuns |-> hr, rbi |-> rbi]

Split(p, t, st) == [kind |-> "object", player |-> p, team |-> t, stat |-> st]
NullSplit == [kind |-> "null", player |-> NoPlayer, team |-> NoTeam, stat |-> NoStat]
PrimitiveSplit == [kind |-> "primitive", player |-> NoPlayer, team |-> NoTeam, stat |-> NoStat]

\* A row of the flat (fallback) shape.
Flat(id, nm, tm, avg, ab, h, hr, rbi) ==
    [kind |-> "object", id |-> id, name |-> nm, team |-> tm, avg |-> avg,
     atBats |-> ab, hits |-> h, homeRuns |-> hr, rbi |-> rbi]
NullFlat ==
    [kind |-> "null", id |-> Undef, name |-> Undef, team |-> Undef, avg |-> Undef,
     atBats |-> Undef, hits |-> Undef, homeRuns |-> Undef, rbi |-> Undef]

\* An entry of data.stats.
Entry(group, hasSplits, splits) ==
    [kind |-> "object", group |-> group, hasSplits |-> hasSplits, splits |-> splits]
NullEntry == [kind |-> "null", group |-> Undef, hasSplits |-> FALSE, splits |-> <<>>]

\* A parsed body: kind "object" or "null"; hasStats / hasPBS tell whether the
\* stats and playerBattingStats arrays are there.
Body(hasStats, stats, hasPBS, pbs) ==
    [kind |-> "object", hasStats |-> hasStats, stats |-> stats,
     hasPBS |-> hasPBS, playerBattingStats |-> pbs]
NullBody ==
    [kind |-> "null", hasStats |-> FALSE, stats |-> <<>>,
     hasPBS |-> FALSE, playerBattingStats |-> <<>>]

\* --------------------------------------------------- input rows (bounded)
S1 == Split(Player(Num(1000), Str("Ann"), Undef, Undef), Team(Str("Boston Red Sox")),
            Stat(Str(".300"), Undef, Num(400000), Num(120000), Num(10000), Num(50000)))
S2 == Split(Player(Num(2000), Undef, Str("Bo"), Undef), Team(Str("New York Yankees")),
            Stat(Undef, Num(310), Str("432"), Str("134"), Str("8"), Str("52")))
S3 == Split(Player(Undef, Undef, Undef, Str("Cy")), NoTeam,
            Stat(Str("0.280"), Undef, Undef, Undef, Undef, Undef))
S4 == Split(NoPlayer, Team(Str("Boston Red Sox")), NoStat)
S5 == Split(Player(Num(5000), Str("Di"), Undef, Undef), Team(Str("Chicago Cubs")),
            Stat(Str(".---"), Undef, Str("n/a"), Undef, Undef, Undef))
S6 == Split(Player(Num(6000), Num(7000), Undef, Undef), Team(Str("Chicago Cubs")),
            Stat(Str(".320"), Undef, Num(100000), Num(32000), Num(1000), Num(9000)))

SplitRows == {S1, S2, S3, S4, S5, S6, NullSplit, PrimitiveSplit}

F1 == Flat(Num(1000), Str("Luis Arraez"), Str("San Diego Padres"), Num(329),
           Num(432000), Num(142000), Num(8000), Num(52000))
F2 == Flat(Num(2000), Str("Freddie Freeman"), Str("Los Angeles Dodgers"), Str("0.318"),
           Str("426"), Str("135"), Str("22"), Str("81"))
F3 == Flat(Undef, Undef, Undef, Num(305), Num(410000), Num(125000), Num(35000), Num(92000))
F4 == Flat(Num(4000), Str("Eve"), Str("Texas Rangers"), Undef, Undef, Undef, Undef, Undef)

FlatRows == {F1, F2, F3, F4, NullFlat}

\* all sequences over S of length 0..n
SeqsUpTo(S, n) == UNION {[1..k -> S] : k \in 0..n}

SplitLists == SeqsUpTo(SplitRows, MaxRows)
FlatLists == SeqsUpTo(FlatRows, MaxRows)

Groups == {Str("hitting"), Str("pitching"), Undef}

FirstEntries ==
    {NullEntry}
    \cup {Entry(g, FALSE, <<>>) : g \in Groups}
    \cup {Entry(g, TRUE, l) : g \in Groups, l \in SplitLists}

\* what may follow the first entry of data.stats
StatsTails ==
    {<<>>, <<NullEntry>>, <<Entry(Str("hitting"), TRUE, <<S1>>)>>,
     <<Entry(Str("hitting"), TRUE, <<>>)>>}

\* the data.stats arrays that come with a playerBattingStats array
StatsBesidePBS ==
    {<<>>, <<Entry(Str("pitching"), TRUE, <<S1>>)>>, <<Entry(Str("hitting"), TRUE, <<S3>>)>>}

Bodies ==
    {NullBody, Body(FALSE, <<>>, FALSE, <<>>), Body(TRUE, <<>>, FALSE, <<>>)}
    \cup {Body(TRUE, <<e>> \o tl, FALSE, <<>>) : e \in FirstEntries, tl \in StatsTails}
    \cup {Body(FALSE, <<>>, TRUE, l) : l \in FlatLists}
    \cup {Body(TRUE, st, TRUE, l) : st \in StatsBesidePBS, l \in FlatLists}

\* what the transport can do: reject, answer with a non-success status,
\* answer with a body that is not JSON, or answer with a parsed body
Outcome(kind, body) == [kind |-> kind, body |-> body]
NetOutcomes ==
    {Outcome(k, NullBody) : k \in {"reject", "notOk", "badJson"}}
    \cup {Outcome("ok", b) : b \in Bodies}

\* -------------------------------------------------------- MlbStatsClient
\* The bundled fallback rows (the name of row 25 is written in ASCII).
MockRows ==
    <<
       Flat(Num(1000), Str("Luis Arraez"), Str("San Diego Padres"), Num(329), Num(432000), Num(142000), Num(8000), Num(52000)),
       Flat(Num(2000), Str("Freddie Freeman"), Str("Los Angeles Dodgers"), Num(318), Num(408000), Num(130000), Num(25000), Num(82000)),
       Flat(Num(3000), Str("Vladimir Guerrero Jr."), Str("Toronto Blue Jays"), Num(317), Num(420000), Num(133000), Num(30000), Num(93000)),
       Flat(Num(4000), Str("Bobby Witt Jr."), Str("Kansas City Royals"), Num(315), Num(425000), Num(134000), Num(23000), Num(75000)),
       Flat(Num(5000), Str("Corey Seager"), Str("Texas Rangers"), Num(313), Num(402000), Num(126000), Num(32000), Num(94000)),
       Flat(Num(6000), Str("Steven Kwan"), Str("Cleveland Guardians"), Num(310), Num(415000), Num(129000), Num(9000), Num(48000)),
       Flat(Num(7000), Str("Mookie Betts"), Str("Los Angeles Dodgers"), Num(307), Num(401000), Num(123000), Num(24000), Num(82000)),
       Flat(Num(8000), Str("Juan Soto"), Str("New York Yankees"), Num(305), Num(390000), Num(119000), Num(35000), Num(99000)),
       Flat(Num(9000), Str("Gunnar Henderson"), Str("Baltimore Orioles"), Num(304), Num(413000), Num(126000), Num(28000), Num(86000)),
       Flat(Num(10000), Str("Yordan Alvarez"), Str("Houston Astros"), Num(302), Num(386000), Num(117000), Num(33000), Num(97000)),
       Flat(Num(11000), Str("Shohei Ohtani"), Str("Los Angeles Dodgers"), Num(299), Num(398000), Num(119000), Num(40000), Num(104000)),
       Flat(Num(12000), Str("Michael Harris II"), Str("Atlanta Braves"), Num(298), Num(408000), Num(122000), Num(18000), Num(70000)),
       Flat(Num(13000), Str("Corbin Carroll"), Str("Arizona Diamondbacks"), Num(297), Num(400000), Num(119000), Num(20000), Num(66000)),
       Flat(Num(14000), Str("Francisco Lindor"), Str("New York Mets"), Num(295), Num(418000), Num(123000), Num(27000), Num(85000)),
       Flat(Num(15000), Str("Rafael Devers"), Str("Boston Red Sox"), Num(293), Num(412000), Num(121000), Num(32000), Num(88000)),
       Flat(Num(16000), Str("Bryce Harper"), Str("Philadelphia Phillies"), Num(292), Num(410000), Num(120000), Num(31000), Num(92000)),
       Flat(Num(17000), Str("Kyle Tucker"), Str("Houston Astros"), Num(290), Num(405000), Num(117000), Num(29000), Num(89000)),
       Flat(Num(18000), Str("Aaron Judge"), Str("New York Yankees"), Num(289), Num(400000), Num(116000), Num(45000), Num(107000)),
       Flat(Num(19000), Str("Elly De La Cruz"), Str("Cincinnati Reds"), Num(287), Num(395000), Num(113000), Num(25000), Num(72000)),
       Flat(Num(20000), Str("Julio Rodriguez"), Str("Seattle Mariners"), Num(286), Num(405000), Num(116000), Num(26000), Num(81000)),
       Flat(Num(21000), Str("Jackson Holliday"), Str("Baltimore Orioles"), Num(284), Num(390000), Num(111000), Num(17000), Num(62000)),
       Flat(Num(22000), Str("Jose Ramirez"), Str("Cleveland Guardians"), Num(283), Num(410000), Num(116000), Num(30000), Num(95000)),
       Flat(Num(23000), Str("Austin Riley"), Str("Atlanta Braves"), Num(280), Num(415000), Num(116000), Num(29000), Num(88000)),
       Flat(Num(24000), Str("Bo Bichette"), Str("Toronto Blue Jays"), Num(278), Num(420000), Num(117000), Num(20000), Num(73000)),
       Flat(Num(25000), Str("Ronald Acuna Jr."), Str("Atlanta Braves"), Num(277), Num(400000), Num(111000), Num(25000), Num(78000)),
       Flat(Num(26000), Str("Trea Turner"), Str("Philadelphia Phillies"), Num(275), Num(418000), Num(115000), Num(22000), Num(74000)),
       Flat(Num(27000), Str("Paul Goldschmidt"), Str("St. Louis Cardinals"), Num(272), Num(405000), Num(110000), Num(24000), Num(79000)),
       Flat(Num(28000), Str("Fernando Tatis Jr."), Str("San Diego Padres"), Num(270), Num(392000), Num(106000), Num(32000), Num(89000)),
       Flat(Num(29000), Str("Luis Robert Jr."), Str("Chicago White Sox"), Num(268), Num(410000), Num(110000), Num(35000), Num(90000)),
       Flat(Num(30000), Str("Nolan Arenado"), Str("St. Louis Cardinals"), Num(265), Num(408000), Num(108000), Num(23000), Num(77000))
    >>

\* getMockBattingStats: the payload that carries the bundled rows (its
\* season field is read by nothing and is left out)
GetMockBattingStats == Body(FALSE, <<>>, TRUE, MockRows)

\* fetchData: throws when fetch rejects, when response.ok is false and when
\* response.json() rejects; returns the parsed body otherwise
FetchData(outcome) ==
    IF outcome.kind = "ok"
    THEN [threw |-> FALSE, value |-> outcome.body]
    ELSE [threw |-> TRUE, value |-> NullBody]

\* a variant of the fallback that asks the network once more after a failure
FallbackRequestsRetry(outcome) == IF outcome.kind = "ok" THEN 0 ELSE 1

\* the requests getPlayerBattingStats issues beyond the one of fetchData:
\* both fallback returns take the bundled payload, built in place
FallbackRequests(outcome) == 0

\* the "no data returned" test of getPlayerBattingStats
NoDataReturned(data) ==
    \/ data.kind = "null"
    \/ ~data.hasStats
    \/ Len(data.stats) = 0
    \/ data.stats[1].kind = "null"
    \/ ~data.stats[1].hasSplits
    \/ Len(data.stats[1].splits) = 0

Fulfilled(v) == [state |-> "fulfilled", value |-> v]
Rejected == [state |-> "rejected", value |-> NullBody]
Pending == [state |-> "pending", value |-> NullBody]

\* a variant of getPlayerBattingStats without its catch block
GetPlayerBattingStatsNoCatch(outcome) ==
    LET r == FetchData(outcome)
    IN  IF r.threw THEN Rejected
        ELSE IF NoDataReturned(r.value) THEN Fulfilled(GetMockBattingStats)
        ELSE Fulfilled(r.value)

\* getPlayerBattingStats: the promise it returns, once settled
GetPlayerBattingStats(outcome) ==
    LET r == FetchData(outcome)
    IN  IF r.threw THEN Fulfilled(GetMockBattingStats)
        ELSE IF NoDataReturned(r.value) THEN Fulfilled(GetMockBattingStats)
        ELSE Fulfilled(r.value)

\* the record built from one split of the API shape
ApiRecord(split) ==
    LET player == IF split.player.has THEN split.player ELSE NoPlayer
        team == IF split.team.has THEN split.team ELSE NoTeam
        stats == IF split.stat.has THEN split.stat ELSE NoStat
    IN  [id |-> player.id,
         name |-> Or(Or(Or(player.fullName, player.lastName), player.name),
                     Str("Unknown Player")),
         team |-> Or(team.name, Str("Unknown Team")),
         avg |-> ParseFloat(Or(Or(stats.avg, stats.battingAverage), Num(0))),
         atBats |-> ParseInt(Or(stats.atBats, Num(0))),
         hits |-> ParseInt(Or(stats.hits, Num(0))),
         homeRuns |-> ParseInt(Or(stats.homeRuns, Num(0))),
         rbi |-> ParseInt(Or(stats.rbi, Num(0)))]

\* the record built from one row of the flat shape
FlatRecord(player) ==
    [id |-> player.id, name |-> player.name, team |-> player.team,
     avg |-> ParseFloat(player.avg),
     atBats |-> ParseInt(player.atBats),
     hits |-> ParseInt(player.hits),
     homeRuns |-> ParseInt(player.homeRuns),
     rbi |-> ParseInt(player.rbi)]

\* (a, b) => b.avg - a.avg; a NaN result counts as 0
CompareAvg(a, b) ==
    IF a.avg.t = "NaN" \/ b.avg.t = "NaN" THEN 0 ELSE b.avg.n - a.avg.n

RECURSIVE InsertSorted(_, _)
InsertSorted(s, x) ==
    IF s = <<>> THEN <<x>>
    ELSE IF CompareAvg(Head(s), x) <= 0 THEN <<Head(s)>> \o InsertSorted(Tail(s), x)
    ELSE <<x>> \o s

\* the stable sort of s by CompareAvg
RECURSIVE StableSort(_)
StableSort(s) ==
    IF s = <<>> THEN <<>>
    ELSE InsertSorted(StableSort(SubSeq(s, 1, Len(s) - 1)), s[Len(s)])

\* CompareAvg is not a consistent comparator on s: some avg is NaN (equal to
\* everything) while two others differ
InconsistentComparator(s) ==
    /\ \E i \in DOMAIN s : s[i].avg.t = "NaN"
    /\ \E i, j \in DOMAIN s :
          /\ s[i].avg.t = "number"
          /\ s[j].avg.t = "number"
          /\ s[i].avg.n # s[j].avg.n

PermutationsOf(s) ==
    {[i \in DOMAIN s |-> s[p[i]]] :
        p \in {q \in [DOMAIN s -> DOMAIN s] : \A i, j \in DOMAIN s : q[i] = q[j] => i = j}}

\* a variant of the sort that leaves the array in the order it has
SortKeepsOrder(s) == {s}

\* Array.prototype.sort with CompareAvg: the stable sort, and with an
\* inconsistent comparator an implementation-defined order
SortOutcomes(s) ==
    IF InconsistentComparator(s) THEN PermutationsOf(s) ELSE {StableSort(s)}

\* rows.map(...) over the splits and over the flat rows
ApiRecords(rows) == [i \in DOMAIN rows |-> ApiRecord(rows[i])]
FlatRecords(rows) == [i \in DOMAIN rows |-> FlatRecord(rows[i])]

\* data.stats.find(stat => stat.group?.displayName === 'hitting'): the index
\* found (0: none); reading the group of a null entry throws
RECURSIVE FindHitting(_, _)
FindHitting(stats, i) ==
    IF i > Len(stats) THEN [threw |-> FALSE, idx |-> 0]
    ELSE IF stats[i].kind = "null" THEN [threw |-> TRUE, idx |-> 0]
    ELSE IF stats[i].group = Str("hitting") THEN [threw |-> FALSE, idx |-> i]
    ELSE FindHitting(stats, i + 1)

\* which part of extractBattingData handles the payload
ExtractBranch(data) ==
    IF data.kind = "null" THEN "throw"
    ELSE LET f == IF data.hasStats /\ Len(data.stats) > 0
                  THEN FindHitting(data.stats, 1)
                  ELSE [threw |-> FALSE, idx |-> 0]
         IN  IF f.threw THEN "throw"
             ELSE IF /\ f.idx > 0
                     /\ data.stats[f.idx].hasSplits
                     /\ Len(data.stats[f.idx].splits) > 0 THEN "api"
             ELSE IF data.hasPBS THEN "flat"
             ELSE "throw"

HittingSplits(data) == data.stats[FindHitting(data.stats, 1).idx].splits

Returned(v) == [threw |-> FALSE, value |-> v]
Thrown == [threw |-> TRUE, value |-> <<>>]

\* the try block of extractBattingData: the ways it can end
ExtractTry(data) ==
    LET b == ExtractBranch(data)
    IN  CASE b = "api" ->
               IF \E i \in DOMAIN HittingSplits(data) : HittingSplits(data)[i].kind = "null"
               THEN {Thrown}
               ELSE {Returned(l) : l \in SortOutcomes(ApiRecords(HittingSplits(data)))}
          [] b = "flat" ->
               IF \E i \in DOMAIN data.playerBattingStats :
                     data.playerBattingStats[i].kind = "null"
               THEN {Thrown}
               ELSE {Returned(l) :
                        l \in SortOutcomes(FlatRecords(data.playerBattingStats))}
          [] OTHER -> {Thrown}

\* a variant of extractBattingData that lets the failure out
ExtractBattingDataNoCatch(data) == ExtractTry(data)

\* extractBattingData: the ways it can end; whatever is thrown inside is
\* caught and the empty list returned
ExtractBattingData(data) ==
    {IF r.threw THEN Returned(<<>>) ELSE r : r \in ExtractTry(data)}

\* ------------------------------------------------------------ teamColors
MLB_TEAM_COLORS ==
    "Baltimore Orioles" :> [primary |-> "#DF4601", secondary |-> "#000000"] @@
    "Boston Red Sox" :> [primary |-> "#BD3039", secondary |-> "#0C2340"] @@
    "New York Yankees" :> [primary |-> "#0C2340", secondary |-> "#FFFFFF"] @@
    "Tampa Bay Rays" :> [primary |-> "#092C5C", secondary |-> "#8FBCE6"] @@
    "Toronto Blue Jays" :> [primary |-> "#134A8E", secondary |-> "#1D2D5C"] @@
    "Chicago White Sox" :> [primary |-> "#27251F", secondary |-> "#C4CED4"] @@
    "Cleveland Guardians" :> [primary |-> "#00385D", secondary |-> "#E50022"] @@
    "Detroit Tigers" :> [primary |-> "#0C2340", secondary |-> "#FA4616"] @@
    "Kansas City Royals" :> [primary |-> "#004687", secondary |-> "#BD9B60"] @@
    "Minnesota Twins" :> [primary |-> "#002B5C", secondary |-> "#D31145"] @@
    "Houston Astros" :> [primary |-> "#002D62", secondary |-> "#EB6E1F"] @@
    "Los Angeles Angels" :> [primary |-> "#BA0021", secondary |-> "#003263"] @@
    "Oakland Athletics" :> [primary |-> "#003831", secondary |-> "#EFB21E"] @@
    "Seattle Mariners" :> [primary |-> "#0C2C56", secondary |-> "#005C5C"] @@
    "Texas Rangers" :> [primary |-> "#003278", secondary |-> "#C0111F"] @@
    "Atlanta Braves" :> [primary |-> "#CE1141", secondary |-> "#13274F"] @@
    "Miami Marlins" :> [primary |-> "#00A3E0", secondary |-> "#FF6600"] @@
    "New York Mets" :> [primary |-> "#002D72", secondary |-> "#FF5910"] @@
    "Philadelphia Phillies" :> [primary |-> "#E81828", secondary |-> "#002D72"] @@
    "Washington Nationals" :> [primary |-> "#AB0003", secondary |-> "#14225A"] @@
    "Chicago Cubs" :> [primary |-> "#0E3386", secondary |-> "#CC3433"] @@
    "Cincinnati Reds" :> [primary |-> "#C6011F", secondary |-> "#000000"] @@
    "Milwaukee Brewers" :> [primary |-> "#0A2351", secondary |-> "#B6922E"] @@
    "Pittsburgh Pirates" :> [primary |-> "#27251F", secondary |-> "#FDB827"] @@
    "St. Louis Cardinals" :> [primary |-> "#C41E3A", secondary |-> "#0C2340"] @@
    "Arizona Diamondbacks" :> [primary |-> "#A71930", secondary |-> "#E3D4AD"] @@
    "Colorado Rockies" :> [primary |-> "#33006F", secondary |-> "#C4CED4"] @@
    "Los Angeles Dodgers" :> [primary |-> "#005A9C", secondary |-> "#FFFFFF"] @@
    "San Diego Padres" :> [primary |-> "#2F241D", secondary |-> "#FFC425"] @@
    "San Francisco Giants" :> [primary |-> "#FD5A1E", secondary |-> "#27251F"] @@
    "Unknown Team" :> [primary |-> "#666666", secondary |-> "#CCCCCC"]

\* The table is an object literal, so a property read on it also finds what
\* every object inherits from Object.prototype: functions, and under
\* "__proto__" Object.prototype itself.  None of them is falsy and none has a
\* primary or secondary property.
ObjectPrototypeKeys ==
    {"constructor", "hasOwnProperty", "isPrototypeOf", "propertyIsEnumerable",
     "toLocaleString", "toString", "valueOf", "__defineGetter__", "__defineSetter__",
     "__lookupGetter__", "__lookupSetter__", "__proto__"}

\* what reading a color property gives when the object has none
UndefinedColor == "undefined"

\* the key a value names when it is used as a property name
PropertyKey(v) ==
    CASE v.t = "string" -> v.s
      [] v.t = "undefined" -> "undefined"
      [] v.t = "null" -> "null"
      [] v.t = "NaN" -> "NaN"
      [] OTHER -> ToString(v.n \div 1000)

\* MLB_TEAM_COLORS[teamName]: own is TRUE for an entry of the table
TableLookup(teamName) ==
    LET key == PropertyKey(teamName)
    IN  IF key \in DOMAIN MLB_TEAM_COLORS
        THEN [found |-> TRUE, own |-> TRUE,
              primary |-> MLB_TEAM_COLORS[key].primary,
              secondary |-> MLB_TEAM_COLORS[key].secondary]
        ELSE IF key \in ObjectPrototypeKeys
        THEN [found |-> TRUE, own |-> FALSE,
              primary |-> UndefinedColor, secondary |-> UndefinedColor]
        ELSE [found |-> FALSE, own |-> FALSE,
              primary |-> UndefinedColor, secondary |-> UndefinedColor]

\* getTeamColors: MLB_TEAM_COLORS[teamName] || MLB_TEAM_COLORS["Unknown Team"]
GetTeamColors(teamName) ==
    IF TableLookup(teamName).found
    THEN TableLookup(teamName)
    ELSE TableLookup(Str("Unknown Team"))

\* this.getTeamColor and this.getTeamSecondaryColor (the value getTeamColors
\* returns is never falsy, so the '#666666' / '#CCCCCC' arms are not taken)
GetTeamColor(teamName) == GetTeamColors(teamName).primary
GetTeamSecondaryColor(teamName) == GetTeamColors(teamName).secondary

\* ----------------------------------------------------- BattingVisualizer
\* The visualizer and the part of the document it writes, as one record:
\*   data, hasData     this.data (hasData FALSE: null)
\*   chart             this.chart: 0 for null, else the id of a chart handle
\*   live              the chart handles constructed and not destroyed
\*   created           how many chart handles were constructed so far
\*   liveAtNew         how many handles were live when the last one was built
\*   hasOriginal, originalBackgroundColors, originalBorderColors
\*   visData, backgroundColor, borderColor   the bars of the chart this.chart
\*   container         the children of the container, in order
\*   legend            the (team, color) entries of the #team-legend element
\*   table             the rows of the #players-table element
\*   mouseleave        the 'mouseleave' listeners on the canvas
\*   hovered           the bar under the pointer at the chart's last hover
\*                     event (0: none)
\*   canvasShows       what is painted on the canvas: "blank", "placeholder"
\*                     (the loading text) or "chart"
\*   calledDestroyed   a method was called on a chart handle after its
\*                     destroy()
CANVAS == "canvas"
LEGEND == "team-legend"
TABLE == "players-table"
ERROR == "error-message"

\* new BattingVisualizer(containerId)
NewVisualizer ==
    [data |-> <<>>, hasData |-> FALSE, chart |-> 0, live |-> {}, created |-> 0,
     liveAtNew |-> 0, hasOriginal |-> FALSE,
     originalBackgroundColors |-> <<>>, originalBorderColors |-> <<>>,
     visData |-> <<>>, backgroundColor |-> <<>>, borderColor |-> <<>>,
     container |-> <<CANVAS>>, legend |-> <<>>, table |-> <<>>, mouseleave |-> 0,
     hovered |-> 0, canvasShows |-> "blank", calledDestroyed |-> FALSE]

Without(seq, x) == SelectSeq(seq, LAMBDA c : c # x)
Contains(seq, x) == \E i \in DOMAIN seq : seq[i] = x

\* container.insertBefore(x, ref): before the child ref, at the end when the
\* document has no such element
InsertBefore(seq, x, ref) ==
    IF Contains(seq, ref)
    THEN LET k == CHOOSE i \in DOMAIN seq : seq[i] = ref
         IN  SubSeq(seq, 1, k - 1) \o <<x>> \o SubSeq(seq, k, Len(seq))
    ELSE Append(seq, x)

\* a variant of showLoading that also releases the chart
ShowLoadingReleasesChart(v) ==
    [v EXCEPT !.container = <<CANVAS>>, !.legend = <<>>, !.table = <<>>,
              !.canvasShows = "placeholder", !.live = v.live \ {v.chart}, !.chart = 0]

\* showLoading: empties the container, puts the canvas back and paints the
\* loading text on it
ShowLoading(v) ==
    [v EXCEPT !.container = <<CANVAS>>, !.legend = <<>>, !.table = <<>>,
              !.canvasShows = "placeholder"]

\* this.chart.destroy(): a live handle is released and its canvas wiped
DestroyChart(v) ==
    IF v.chart \in v.live
    THEN [v EXCEPT !.live = v.live \ {v.chart}, !.canvasShows = "blank"]
    ELSE [v EXCEPT !.calledDestroyed = TRUE]

\* this.chart.update() and this.chart.resize(): a live chart is painted again
RedrawChart(v) ==
    IF v.chart \in v.live
    THEN [v EXCEPT !.canvasShows = "chart"]
    ELSE [v EXCEPT !.calledDestroyed = TRUE]

\* onWindowResize
OnWindowResize(v) == IF v.chart # 0 THEN RedrawChart(v) ELSE v

\* a variant of the slice that keeps the whole list
SliceAll(data) == data

\* data.slice(0, 30)
Slice30(data) == SubSeq(data, 1, IF Len(data) < 30 THEN Len(data) ELSE 30)

\* the property key a team value names in the teams object
TeamKey(team) == PropertyKey(team)

\* a variant of the destroy step of updateVisualization that keeps the old handle
DestroyPreviousSkipped(v) == v

\* updateVisualization, lines 85-88: destroy the chart this.chart names
DestroyPrevious(v) ==
    IF v.chart # 0 THEN DestroyChart(v) ELSE v

\* a variant in which the sort of line 71 works on the caller's array
CallerListSortedInPlace(data, vis) ==
    vis \o SubSeq(data, Len(vis) + 1, Len(data))

\* the array the caller handed over, as it is after lines 68-71: slice gave
\* a new array and the sort worked on that one
CallerListAfter(data, vis) == data

\* updateVisualization up to the construction of the chart (lines 63-95);
\* vis is the sorted slice.  this.data names the caller's array.
BeforeChart(v, data, vis) ==
    LET d == DestroyPrevious([v EXCEPT !.data = CallerListAfter(data, vis),
                                       !.hasData = TRUE])
    IN  [d EXCEPT !.hasOriginal = TRUE,
                  !.originalBackgroundColors =
                      [i \in DOMAIN vis |-> GetTeamColor(vis[i].team)],
                  !.originalBorderColors =
                      [i \in DOMAIN vis |-> GetTeamSecondaryColor(vis[i].team)]]

\* new Chart(ctx, ...) and the assignment to this.chart (line 96)
ConstructChart(v, vis) ==
    [v EXCEPT !.chart = v.created + 1,
              !.created = v.created + 1,
              !.liveAtNew = Cardinality(v.live),
              !.live = v.live \cup {v.created + 1},
              !.visData = vis,
              !.hovered = 0,
              !.canvasShows = "chart",
              !.backgroundColor = v.originalBackgroundColors,
              !.borderColor = v.originalBorderColors]

\* the teams object of updateVisualization (lines 80-83): team key to primary
\* color.  Assigning a non-object to the key "__proto__" adds no property.
Teams(vis) ==
    {<<TeamKey(vis[i].team), GetTeamColor(vis[i].team)>> :
        i \in {j \in DOMAIN vis : TeamKey(vis[j].team) # "__proto__"}}

\* the characters of the keys in the order of their UTF-16 code units
CodeUnitOrder ==
    " -.0123456789ABCDEFGHIJKLMNOPQRSTUVWXYZ[]_abcdefghijklmnopqrstuvwxyz"

\* the rank of each of these characters by code unit
CodeUnit ==
    [c \in {SubSeq(CodeUnitOrder, i, i) : i \in 1..Len(CodeUnitOrder)} |->
        CHOOSE i \in 1..Len(CodeUnitOrder) : SubSeq(CodeUnitOrder, i, i) = c]

\* a < b as Array.prototype.sort() without a comparator orders strings
RECURSIVE StringLess(_, _)
StringLess(a, b) ==
    IF Len(b) = 0 THEN FALSE
    ELSE IF Len(a) = 0 THEN TRUE
    ELSE IF SubSeq(a, 1, 1) = SubSeq(b, 1, 1) THEN StringLess(Tail(a), Tail(b))
    ELSE CodeUnit[SubSeq(a, 1, 1)] < CodeUnit[SubSeq(b, 1, 1)]

\* Object.keys(teams).sort() (line 323)
RECURSIVE SortedKeys(_)
SortedKeys(keys) ==
    IF keys = {} THEN <<>>
    ELSE LET k == CHOOSE x \in keys : \A y \in keys \ {x} : StringLess(x, y)
         IN  <<k>> \o SortedKeys(keys \ {k})

\* the entries addTeamLegend appends (lines 323-343): one per key of teams,
\* in sorted order, each with the color stored under the key
LegendEntries(vis) ==
    LET teams == Teams(vis)
        keys == SortedKeys({e[1] : e \in teams})
    IN  [i \in DOMAIN keys |->
            [team |-> keys[i],
             color |-> (CHOOSE e \in teams : e[1] = keys[i])[2]]]

\* a variant of addTeamLegend that leaves the old #team-legend in place
AddTeamLegendKeepsOld(v, vis) ==
    [v EXCEPT !.legend = LegendEntries(vis),
              !.container = InsertBefore(v.container, LEGEND, TABLE)]

\* addTeamLegend(teams): the old #team-legend goes, the new one is put
\* before #players-table
AddTeamLegend(v, vis) ==
    [v EXCEPT !.legend = LegendEntries(vis),
              !.container = InsertBefore(Without(v.container, LEGEND), LEGEND, TABLE)]

\* addPlayerTable(visData): the old #players-table goes, the new one is
\* appended; tbl is visData sorted again
AddPlayerTable(v, tbl) ==
    [v EXCEPT !.table = tbl,
              !.container = Append(Without(v.container, TABLE), TABLE)]

\* canvas.addEventListener('mouseleave', <a new closure>)
AddMouseLeave(v) == [v EXCEPT !.mouseleave = v.mouseleave + 1]

\* updateVisualization(data): the ways it can end.  chartLib tells whether
\* the Chart constructor returns a chart; otherwise line 96 throws.  list is
\* the caller's array after the call.
UpdateVisualization(v, data, chartLib) ==
    UNION {
      {IF chartLib
       THEN [threw |-> FALSE, list |-> CallerListAfter(data, vis),
             v |-> AddMouseLeave(AddPlayerTable(
                       AddTeamLegend(ConstructChart(BeforeChart(v, data, vis), vis), vis), tbl))]
       ELSE [threw |-> TRUE, list |-> CallerListAfter(data, vis),
             v |-> BeforeChart(v, data, vis)] :
          tbl \in SortOutcomes(vis)} :
      vis \in SortOutcomes(Slice30(data))}

\* clearObjects: destroys and forgets the chart; looks for an element with
\* id 'custom-legend', which nothing creates
ClearObjects(v) ==
    IF v.chart # 0
    THEN [DestroyChart(v) EXCEPT !.chart = 0]
    ELSE v

\* ------------------------------------------------------ hover and colors
StartsWith(s, prefix) ==
    Len(s) >= Len(prefix) /\ SubSeq(s, 1, Len(prefix)) = prefix

HexDigits ==
    Digits \cup {"a", "b", "c", "d", "e", "f", "A", "B", "C", "D", "E", "F"}

HexDigitVal(c) ==
    CASE c \in Digits -> DigitVal(c)
      [] c \in {"a", "A"} -> 10 [] c \in {"b", "B"} -> 11 [] c \in {"c", "C"} -> 12
      [] c \in {"d", "D"} -> 13 [] c \in {"e", "E"} -> 14 [] c \in {"f", "F"} -> 15

\* the text of parseInt(s, 16) for a slice s of at most two characters
ParseIntHexText(s) ==
    IF Len(s) = 0 \/ Head(s) \notin HexDigits THEN "NaN"
    ELSE IF Len(s) = 1 \/ Head(Tail(s)) \notin HexDigits
    THEN ToString(HexDigitVal(Head(s)))
    ELSE ToString(HexDigitVal(Head(s)) * 16 + HexDigitVal(Head(Tail(s))))

\* color.slice(a, b) with 0-based a and exclusive b
Slice(s, a, b) ==
    SubSeq(s, a + 1, IF b < Len(s) THEN b ELSE Len(s))

\* s without the digits and dots it ends with
RECURSIVE DropNumberTail(_)
DropNumberTail(s) ==
    IF Len(s) > 0 /\ SubSeq(s, Len(s), Len(s)) \in Digits \cup {"."}
    THEN DropNumberTail(SubSeq(s, 1, Len(s) - 1))
    ELSE s

\* a variant of the replacement that lowers the opacity at each call
ReplaceOpacityLowered(color) ==
    IF Len(color) > 0 /\ SubSeq(color, Len(color), Len(color)) = ")"
    THEN DropNumberTail(SubSeq(color, 1, Len(color) - 1)) \o "0.04)"
    ELSE color

\* color.replace(/[\d\.]+\)$/, '0.2)')
ReplaceOpacity(color) ==
    IF Len(color) > 0 /\ SubSeq(color, Len(color), Len(color)) = ")"
    THEN LET body == SubSeq(color, 1, Len(color) - 1)
             kept == DropNumberTail(body)
         IN  IF Len(kept) < Len(body) THEN kept \o "0.2)" ELSE color
    ELSE color

\* the position of the first ')' of s (0: none)
RECURSIVE FirstParen(_, _)
FirstParen(s, i) ==
    IF i > Len(s) THEN 0
    ELSE IF SubSeq(s, i, i) = ")" THEN i
    ELSE FirstParen(s, i + 1)

\* color.replace(')', ', 0.2)').replace('rgb', 'rgba') on a color that
\* starts with 'rgb'
RgbToRgba(color) ==
    LET k == FirstParen(color, 1)
        c == IF k = 0 THEN color
             ELSE SubSeq(color, 1, k - 1) \o ", 0.2)" \o SubSeq(color, k + 1, Len(color))
    IN  "rgba" \o SubSeq(c, 4, Len(c))

\* fadeColor(color); color.startsWith throws when color is undefined
FadeColor(color) ==
    IF color = UndefinedColor THEN [threw |-> TRUE, value |-> UndefinedColor]
    ELSE IF StartsWith(color, "#")
    THEN [threw |-> FALSE,
          value |-> "rgba(" \o ParseIntHexText(Slice(color, 1, 3)) \o ", "
                            \o ParseIntHexText(Slice(color, 3, 5)) \o ", "
                            \o ParseIntHexText(Slice(color, 5, 7)) \o ", 0.2)"]
    ELSE IF StartsWith(color, "rgba") THEN [threw |-> FALSE, value |-> ReplaceOpacity(color)]
    ELSE IF StartsWith(color, "rgb") THEN [threw |-> FALSE, value |-> RgbToRgba(color)]
    ELSE [threw |-> FALSE, value |-> color]

\* a variant of resetBarColors that leaves the displayed colors alone
ResetBarColorsSkipped(v) == v

\* resetBarColors
ResetBarColors(v) ==
    IF v.chart # 0 /\ v.hasOriginal
    THEN IF v.chart \in v.live
         THEN [RedrawChart(v) EXCEPT !.backgroundColor = v.originalBackgroundColors,
                                     !.borderColor = v.originalBorderColors]
         ELSE RedrawChart(v)
    ELSE v

\* highlightTeam(teamToHighlight, players): the new arrays reach the chart
\* only when no fadeColor call of the loop threw
HighlightTeam(v, teamToHighlight, players) ==
    IF v.chart = 0 \/ ~v.hasOriginal THEN [threw |-> FALSE, v |-> v]
    ELSE LET others == {i \in DOMAIN players : players[i].team # teamToHighlight}
         IN  IF \E i \in others :
                   \/ FadeColor(v.originalBackgroundColors[i]).threw
                   \/ FadeColor(v.originalBorderColors[i]).threw
             THEN [threw |-> TRUE, v |-> v]
             ELSE [threw |-> FALSE,
                   v |-> [RedrawChart(v) EXCEPT
                      !.backgroundColor =
                          [i \in DOMAIN v.originalBackgroundColors |->
                              IF i \in others
                              THEN FadeColor(v.originalBackgroundColors[i]).value
                              ELSE v.originalBackgroundColors[i]],
                      !.borderColor =
                          [i \in DOMAIN v.originalBorderColors |->
                              IF i \in others
                              THEN FadeColor(v.originalBorderColors[i]).value
                              ELSE v.originalBorderColors[i]]]]

\* the onHover callback of the chart (lines 178-190); index is the bar of
\* activeElements[0], 0 when activeElements is empty
OnHover(v, index) ==
    LET r == [ResetBarColors(v) EXCEPT !.hovered = index]
    IN  IF index > 0
        THEN HighlightTeam(r, r.visData[index].team, r.visData)
        ELSE [threw |-> FALSE, v |-> r]

\* the 'mouseleave' listeners of the canvas (lines 227-230), each one run
OnMouseLeave(v) ==
    IF v.mouseleave > 0 THEN [ResetBarColors(v) EXCEPT !.hovered = 0] ELSE v

\* the chart this.chart is live and its canvas is in the container, so that
\* pointer events reach it
ChartOnPage(v) == v.chart \in v.live /\ Contains(v.container, CANVAS)

\* ------------------------------------------------------------ controller
\* a > b and a < b on avg values: false when either is NaN
GreaterAvg(a, b) == a.avg.t = "number" /\ b.avg.t = "number" /\ a.avg.n > b.avg.n
LessAvg(a, b) == a.avg.t = "number" /\ b.avg.t = "number" /\ a.avg.n < b.avg.n

\* data.reduce((prev, current) => (prev.avg > current.avg) ? prev : current)
\* from position i on, prev being the value so far
RECURSIVE ReduceBest(_, _, _)
ReduceBest(data, i, prev) ==
    IF i > Len(data) THEN prev
    ELSE ReduceBest(data, i + 1, IF GreaterAvg(prev, data[i]) THEN prev ELSE data[i])

\* data.reduce((prev, current) => (prev.avg < current.avg) ? prev : current)
RECURSIVE ReduceWorst(_, _, _)
ReduceWorst(data, i, prev) ==
    IF i > Len(data) THEN prev
    ELSE ReduceWorst(data, i + 1, IF LessAvg(prev, data[i]) THEN prev ELSE data[i])

\* data.reduce((sum, item) => sum + item.avg, 0): the sum in thousandths,
\* NaN as soon as one avg is NaN
RECURSIVE SumAvg(_, _)
SumAvg(data, i) ==
    IF i > Len(data) THEN 0 ELSE data[i].avg.n + SumAvg(data, i + 1)

\* avgBattingAvg: the quotient sum / length, kept as the pair
AvgBattingAvg(data) ==
    [nan |-> \E i \in DOMAIN data : data[i].avg.t # "number",
     sum |-> SumAvg(data, 1),
     count |-> Len(data)]

\* updateStatsInfo(data): what the summary panel is made from
UpdateStatsInfo(data) ==
    IF Len(data) = 0
    THEN [kind |-> "noData", data |-> <<>>]
    ELSE [kind |-> "stats", data |-> data,
          avgBattingAvg |-> AvgBattingAvg(data),
          bestBatter |-> ReduceBest(data, 2, data[1]),
          worstBatter |-> ReduceWorst(data, 2, data[1])]

\* a variant of toggleLoading that never hides the indicator
ToggleLoadingNeverHides(isLoading, v) ==
    [hidden |-> FALSE, viz |-> IF isLoading THEN ShowLoading(v) ELSE v]

\* toggleLoading(isLoading): the 'hidden' class of the indicator afterwards,
\* and the visualizer, on which showLoading is called when loading starts
ToggleLoading(isLoading, v) ==
    IF isLoading
    THEN [hidden |-> FALSE, viz |-> ShowLoading(v)]
    ELSE [hidden |-> TRUE, viz |-> v]

\* a variant of the catch block that leaves the container as it is
FailurePathKeepsContainer(v) == ClearObjects(v)

\* the catch block of fetchAndVisualizeData: clearObjects, then the container
\* is emptied and given the error message
FailurePath(v) ==
    [ClearObjects(v) EXCEPT !.container = <<ERROR>>, !.legend = <<>>, !.table = <<>>]

\* the state of the Visualizer's three-state machine, read from what the
\* visualizer holds and what the container shows: Loading when the canvas
\* alone is in the container and carries the loading text, Rendered when a
\* live chart, the legend and the table are there, Idle when there is no
\* chart
MachineState(v) ==
    IF v.container = <<CANVAS>> /\ v.canvasShows = "placeholder" THEN "Loading"
    ELSE IF v.chart \in v.live /\ Contains(v.container, LEGEND)
                               /\ Contains(v.container, TABLE) THEN "Rendered"
    ELSE IF v.chart = 0 THEN "Idle"
    ELSE "none"

\* a call of the visualizer method op with argument arg, made when the
\* visualizer is v
Call(op, v, arg) == [op |-> op, in |-> MachineState(v), arg |-> arg]

\* how one run of fetchAndVisualizeData ended: the payload, the list
\* extractBattingData returned, the path taken, the visualizer, the list
\* handed to updateStatsInfo and the calls made on the visualizer
FetchEnd(resp, data, path, v, statsArg, calls) ==
    [response |-> resp, data |-> data, path |-> path, viz |-> v,
     statsArg |-> statsArg, calls |-> calls]

\* a variant in which the catch block writes the summary panel as well
StatsInfoAfterClearsOnFailure(e, old) ==
    IF e.path = "success" THEN UpdateStatsInfo(e.statsArg)
    ELSE [kind |-> "noData", data |-> <<>>]

\* the summary panel after the run: line 46 is reached on the success path
\* only
StatsInfoAfter(e, old) ==
    IF e.path = "success" THEN UpdateStatsInfo(e.statsArg) ELSE old

\* fetchAndVisualizeData from the moment the request settles with outcome o
\* (lines 36-64): the ways it can end
Continuation(v, o, chartLib) ==
    LET p == GetPlayerBattingStats(o)
    IN  IF p.state = "rejected"
        THEN {FetchEnd(NullBody, <<>>, "failure", FailurePath(v), <<>>,
                       <<Call("clearObjects", v, <<>>)>>)}
        ELSE UNION {
               IF r.threw
               THEN {FetchEnd(p.value, <<>>, "failure", FailurePath(v), <<>>,
                              <<Call("clearObjects", v, <<>>)>>)}
               ELSE {IF u.threw
                     THEN FetchEnd(p.value, r.value, "failure", FailurePath(u.v), <<>>,
                                   <<Call("updateVisualization", v, r.value),
                                     Call("clearObjects", u.v, <<>>)>>)
                     ELSE FetchEnd(p.value, r.value, "success", u.v, u.list,
                                   <<Call("updateVisualization", v, r.value)>>) :
                        u \in UpdateVisualization(v, r.value, chartLib)} :
               r \in ExtractBattingData(p.value)}

\* --------------------------------------------------------------- state
VARIABLES
    net,        \* client run: what the transport does
    promise,    \* client run: the promise getPlayerBattingStats returned
    arg,        \* client run: the payload handed to extractBattingData
    out,        \* client run: the list extractBattingData returned
    cpc,        \* client run: "start", "fetched", "extracted", "direct", "threw"
    viz,        \* the visualizer and the container it writes
    chartLib,   \* whether new Chart(...) returned a chart when it was last tried
    loaded,     \* the page's start-up code has issued the automatic fetch
    nTriggered, \* how many fetches were triggered; fetch k is the k-th
    fpc,        \* per fetch: "none", "inflight" or "done"
    response,   \* per fetch: the payload getPlayerBattingStats resolved with
    fdata,      \* per fetch: the list extractBattingData returned
    fpath,      \* per fetch: "none", "success" or "failure"
    pendingAtStart, \* per fetch: the fetches in flight when it was triggered
    loadingHidden, \* the loading indicator carries the class 'hidden'
    requests,   \* network requests issued so far
    statsInfo,  \* the summary panel
    styleAdded, \* the stats-grid style element is in the document head
    lastStep,   \* the last controller step or visualizer call: [kind, f]
    vizCalls,   \* the calls that step made on the visualizer: [op, in, arg]
    teamName,   \* lookup run: the name handed to getTeamColors
    colors,     \* lookup run: what the calls of getTeamColors returned, in order
    faded       \* lookup run: a color and what repeated fadeColor made of it

clientVars == <<net, promise, arg, out, cpc>>
vizVars == <<viz, chartLib>>
colorVars == <<teamName, colors, faded>>
fetchVars ==
    <<loaded, nTriggered, fpc, response, fdata, fpath, pendingAtStart, loadingHidden, requests,
      statsInfo, styleAdded, colorVars>>
pageVars == <<fetchVars, lastStep, vizCalls>>
vars == <<clientVars, vizVars, pageVars>>

Fetches == 1..MaxFetches

ClientIdle ==
    /\ net = Outcome("reject", NullBody)
    /\ promise = Pending
    /\ arg = NullBody
    /\ out = <<>>
    /\ cpc = "idle"

ColorsIdle ==
    /\ teamName = Undef
    /\ colors = <<>>
    /\ faded = <<>>

PageIdle ==
    /\ ColorsIdle
    /\ loaded = FALSE
    /\ nTriggered = 0
    /\ fpc = [f \in Fetches |-> "none"]
    /\ response = [f \in Fetches |-> NullBody]
    /\ fdata = [f \in Fetches |-> <<>>]
    /\ fpath = [f \in Fetches |-> "none"]
    /\ pendingAtStart = [f \in Fetches |-> {}]
    /\ requests = 0
    /\ statsInfo = [kind |-> "initial", data |-> <<>>]
    /\ styleAdded = FALSE
    /\ lastStep = [kind |-> "init", f |-> 0]
    /\ vizCalls = <<>>

\* ------------------------------------------------------ the client alone
ClientInit ==
    /\ net \in NetOutcomes
    /\ promise = Pending
    /\ arg = NullBody
    /\ out = <<>>
    /\ cpc = "start"
    /\ viz = NewVisualizer
    /\ chartLib = TRUE
    /\ loadingHidden = TRUE
    /\ PageIdle

\* await mlbStatsClient.getPlayerBattingStats(season)
ClientFetch ==
    /\ cpc = "start"
    /\ promise' = GetPlayerBattingStats(net)
    /\ cpc' = "fetched"
    /\ UNCHANGED <<net, arg, out, vizVars, pageVars>>

\* mlbStatsClient.extractBattingData(response) on what the promise gave
ClientExtract ==
    /\ cpc = "fetched"
    /\ promise.state = "fulfilled"
    /\ arg' = promise.value
    /\ \E r \in ExtractBattingData(promise.value) :
          /\ out' = r.value
          /\ cpc' = IF r.threw THEN "threw" ELSE "extracted"
    /\ UNCHANGED <<net, promise, vizVars, pageVars>>

\* extractBattingData called directly on a parsed body
ClientExtractDirect ==
    /\ cpc = "start"
    /\ net.kind = "ok"
    /\ arg' = net.body
    /\ \E r \in ExtractBattingData(net.body) :
          /\ out' = r.value
          /\ cpc' = IF r.threw THEN "threw" ELSE "direct"
    /\ UNCHANGED <<net, promise, vizVars, pageVars>>

ClientNext == ClientFetch \/ ClientExtract \/ ClientExtractDirect

SpecClient == ClientInit /\ [][ClientNext]_vars

\* ------------------------------------------------ the color lookup alone
MaxCalls == 2
MaxFades == 2

\* the names looked up: the keys of the table, the names every object
\* inherits, and names of neither kind
TeamNames ==
    {Str(k) : k \in DOMAIN MLB_TEAM_COLORS}
    \cup {Str(k) : k \in ObjectPrototypeKeys}
    \cup {Str(""), Str("Nowhere Nine"), Str("boston red sox"), Str("Red Sox"),
          Str("undefined")}

ColorsInit ==
    /\ teamName \in TeamNames
    /\ colors = <<>>
    /\ viz = NewVisualizer
    /\ chartLib = TRUE
    /\ loadingHidden = TRUE
    /\ ClientIdle
    /\ loaded = FALSE
    /\ nTriggered = 0
    /\ fpc = [f \in Fetches |-> "none"]
    /\ response = [f \in Fetches |-> NullBody]
    /\ fdata = [f \in Fetches |-> <<>>]
    /\ fpath = [f \in Fetches |-> "none"]
    /\ pendingAtStart = [f \in Fetches |-> {}]
    /\ requests = 0
    /\ statsInfo = [kind |-> "initial", data |-> <<>>]
    /\ styleAdded = FALSE
    /\ lastStep = [kind |-> "init", f |-> 0]
    /\ vizCalls = <<>>
    /\ faded = <<>>

\* getTeamColors(teamName)
CallGetTeamColors ==
    /\ Len(colors) < MaxCalls
    /\ colors' = Append(colors, GetTeamColors(teamName))
    /\ UNCHANGED <<teamName, faded, clientVars, vizVars, loaded, nTriggered, fpc, response,
                   fdata, fpath, pendingAtStart, loadingHidden, requests, statsInfo,
                   styleAdded, lastStep, vizCalls>>

\* fadeColor applied to a color of a pair getTeamColors returned, and then
\* to what fadeColor returned, MaxFades times in all
CallFadeColor ==
    /\ IF faded = <<>>
       THEN \E k \in DOMAIN colors : \E c \in {colors[k].primary, colors[k].secondary} :
               /\ c # UndefinedColor
               /\ faded' = <<c, FadeColor(c).value>>
       ELSE /\ Len(faded) <= MaxFades
            /\ faded' = Append(faded, FadeColor(faded[Len(faded)]).value)
    /\ UNCHANGED <<teamName, colors, clientVars, vizVars, loaded, nTriggered, fpc, response,
                   fdata, fpath, pendingAtStart, loadingHidden, requests, statsInfo,
                   styleAdded, lastStep, vizCalls>>

ColorsNext == CallGetTeamColors \/ CallFadeColor

SpecColors == ColorsInit /\ [][ColorsNext]_vars

\* ------------------------------------------------- the visualizer alone
MaxRenders == 2
MaxBar == 3

RecordsA == StableSort(ApiRecords(<<S1, S2>>))
RecordsB == StableSort(ApiRecords(<<S3, S6>>))
RecordsBundled == StableSort(FlatRecords(MockRows))

\* the lists handed to updateVisualization
RecordsUnsorted == ApiRecords(<<S3, S1, S6>>)
RecordsOver30 == RecordsBundled \o ApiRecords(<<S6, S3>>)
\* a split whose team carries the name of a property every object inherits
SInherited ==
    Split(Player(Num(7000), Str("Ed"), Undef, Undef), Team(Str("constructor")),
          Stat(Str(".290"), Undef, Num(300000), Num(87000), Num(4000), Num(30000)))
RecordsInherited == StableSort(ApiRecords(<<S1, SInherited, S2>>))

\* a second player with the avg of S1
STied ==
    Split(Player(Num(8000), Str("Flo"), Undef, Undef), Team(Str("Boston Red Sox")),
          Stat(Str(".300"), Undef, Num(200000), Num(60000), Num(2000), Num(20000)))
RecordsTied == ApiRecords(<<S1, STied, S3>>)
RecordsWithNaN == ApiRecords(<<S1, S5, S3>>)
RecordsOver30Valid == RecordsBundled \o ApiRecords(<<S1, S3>>)

VizInputs ==
    {<<>>, RecordsA, RecordsB, RecordsUnsorted, RecordsBundled, RecordsOver30,
     RecordsInherited, RecordsTied, RecordsWithNaN, RecordsOver30Valid}

VizInit ==
    /\ viz = NewVisualizer
    /\ chartLib \in BOOLEAN
    /\ loadingHidden = TRUE
    /\ ClientIdle
    /\ PageIdle

CallShowLoading ==
    /\ viz' = ShowLoading(viz)
    /\ lastStep' = [kind |-> "showLoading", f |-> 0]
    /\ vizCalls' = <<Call("showLoading", viz, <<>>)>>
    /\ UNCHANGED <<chartLib, clientVars, fetchVars>>

\* updateVisualization(data) when new Chart(...) returns a chart (lib) or
\* throws (~lib)
UpdateStep(data, lib) ==
    /\ \E u \in UpdateVisualization(viz, data, lib) :
          /\ viz' = u.v
          /\ lastStep' = [kind |-> IF u.threw THEN "updateVisualization threw"
                                   ELSE "updateVisualization returned",
                          f |-> 0]
    /\ chartLib' = lib
    /\ vizCalls' = <<Call("updateVisualization", viz, data)>>
    /\ UNCHANGED <<clientVars, fetchVars>>

\* the charting library is loaded or missing for the whole run
CallUpdateVisualization ==
    /\ viz.mouseleave < MaxRenders
    /\ \E data \in VizInputs : UpdateStep(data, chartLib)

CallClearObjects ==
    /\ viz' = ClearObjects(viz)
    /\ lastStep' = [kind |-> "clearObjects", f |-> 0]
    /\ vizCalls' = <<Call("clearObjects", viz, <<>>)>>
    /\ UNCHANGED <<chartLib, clientVars, fetchVars>>

\* the window is resized (the listener of line 29)
WindowResize ==
    /\ viz' = OnWindowResize(viz)
    /\ UNCHANGED <<chartLib, clientVars, pageVars>>

\* the pointer moves over bar i of the chart, one of the first MaxBar bars
HoverBar ==
    /\ ChartOnPage(viz)
    /\ \E i \in DOMAIN viz.visData : i <= MaxBar /\ viz' = OnHover(viz, i).v
    /\ UNCHANGED <<chartLib, clientVars, pageVars>>

\* the pointer moves over the chart area beside the bars
HoverNoBar ==
    /\ ChartOnPage(viz)
    /\ viz' = OnHover(viz, 0).v
    /\ UNCHANGED <<chartLib, clientVars, pageVars>>

\* the pointer leaves the canvas
MouseLeave ==
    /\ Contains(viz.container, CANVAS)
    /\ viz' = OnMouseLeave(viz)
    /\ UNCHANGED <<chartLib, clientVars, pageVars>>

VizNext ==
    \/ CallShowLoading
    \/ CallUpdateVisualization
    \/ CallClearObjects
    \/ HoverBar
    \/ HoverNoBar
    \/ MouseLeave
    \/ WindowResize

SpecVisualizer == VizInit /\ [][VizNext]_vars

\* ------------------------------------------- the life of the chart handle
\* The Chart constructor is the charting library's: whether it returns a
\* chart or throws is not in this program's hands, so here each call of
\* updateVisualization meets either outcome.
ChartInputs == {<<>>, RecordsA, RecordsUnsorted}

ChartInit ==
    /\ viz = NewVisualizer
    /\ chartLib = TRUE
    /\ loadingHidden = TRUE
    /\ ClientIdle
    /\ PageIdle

CallUpdateVisualizationEither ==
    /\ viz.mouseleave < MaxRenders
    /\ \E data \in ChartInputs : \E lib \in BOOLEAN : UpdateStep(data, lib)

ChartNext ==
    \/ CallShowLoading
    \/ CallUpdateVisualizationEither
    \/ CallClearObjects
    \/ HoverBar
    \/ HoverNoBar
    \/ MouseLeave
    \/ WindowResize

SpecChart == ChartInit /\ [][ChartNext]_vars

\* --------------------------------------------------------- the whole page
\* what the transport does in the runs of the page
BodyA == Body(TRUE, <<Entry(Str("hitting"), TRUE, <<S1, S2>>)>>, FALSE, <<>>)
BodyB == Body(TRUE, <<Entry(Str("hitting"), TRUE, <<S3, S6>>)>>, FALSE, <<>>)
BodyNoHitting == Body(TRUE, <<Entry(Str("pitching"), TRUE, <<S1>>)>>, FALSE, <<>>)
BodyNoRows == Body(TRUE, <<Entry(Str("hitting"), TRUE, <<>>)>>, FALSE, <<>>)

\* two players far below the bundled ones
SLow1 ==
    Split(Player(Num(31000), Str("Hal"), Undef, Undef), Team(Str("Miami Marlins")),
          Stat(Str(".105"), Undef, Num(200000), Num(21000), Num(0), Num(5000)))
SLow2 ==
    Split(Player(Num(32000), Str("Ike"), Undef, Undef), Team(Str("Miami Marlins")),
          Stat(Str(".100"), Undef, Num(200000), Num(20000), Num(0), Num(4000)))

\* a player with the avg of S3
STiedLow ==
    Split(Player(Num(9000), Str("Gus"), Undef, Undef), Team(Str("Texas Rangers")),
          Stat(Str("0.280"), Undef, Num(100000), Num(28000), Num(1000), Num(10000)))
BodyTied ==
    Body(TRUE, <<Entry(Str("hitting"), TRUE, <<S1, STied, S3, STiedLow>>)>>, FALSE, <<>>)

\* the bundled rows as splits, and a body of 32 splits whose two lowest
\* come first
SplitOfFlat(row) ==
    Split(Player(row.id, row.name, Undef, Undef), Team(row.team),
          Stat(row.avg, Undef, row.atBats, row.hits, row.homeRuns, row.rbi))
BodyOver30 ==
    Body(TRUE,
         <<Entry(Str("hitting"), TRUE,
                 <<SLow1, SLow2>> \o [i \in 1..30 |-> SplitOfFlat(MockRows[i])])>>,
         FALSE, <<>>)

PageOutcomes ==
    {Outcome("reject", NullBody), Outcome("notOk", NullBody),
     Outcome("ok", BodyA), Outcome("ok", BodyB),
     Outcome("ok", BodyNoHitting), Outcome("ok", BodyNoRows),
     Outcome("ok", BodyTied), Outcome("ok", BodyOver30)}

Init ==
    /\ viz = NewVisualizer
    /\ chartLib \in BOOLEAN
    /\ loadingHidden \in BOOLEAN
    /\ ClientIdle
    /\ PageIdle

\* fetchAndVisualizeData up to its await (lines 30-36): toggleLoading(true)
\* shows the indicator and calls showLoading, then the request is issued.
\* The season read from the selector only goes into the request URL; what
\* comes back for it is the outcome chosen when the request settles.
StartFetch ==
    /\ nTriggered < MaxFetches
    /\ nTriggered' = nTriggered + 1
    /\ fpc' = [fpc EXCEPT ![nTriggered + 1] = "inflight"]
    /\ pendingAtStart' =
          [pendingAtStart EXCEPT ![nTriggered + 1] = {g \in Fetches : fpc[g] = "inflight"}]
    /\ loadingHidden' = ToggleLoading(TRUE, viz).hidden
    /\ viz' = ToggleLoading(TRUE, viz).viz
    /\ requests' = requests + 1
    /\ lastStep' = [kind |-> "start", f |-> nTriggered + 1]
    /\ vizCalls' = <<Call("showLoading", viz, <<>>)>>
    /\ UNCHANGED <<chartLib, response, fdata, fpath, statsInfo, styleAdded, clientVars,
                   colorVars>>

\* the automatic fetch at the end of the DOMContentLoaded handler (line 171)
PageLoad ==
    /\ ~loaded
    /\ loaded' = TRUE
    /\ StartFetch

\* a click on the fetch button (line 168)
Click ==
    /\ loaded
    /\ UNCHANGED loaded
    /\ StartFetch

\* the request of fetch f settles and fetchAndVisualizeData runs to its end.
\* The arrival of the status line and the reading of the body are one step:
\* between them nothing of the page is written.  Nothing awaits after line
\* 36, so the rest of the function runs without another handler in between.
Settle(f) ==
    /\ fpc[f] = "inflight"
    /\ \E o \in PageOutcomes : \E lib \in BOOLEAN : \E e \in Continuation(viz, o, lib) :
          /\ chartLib' = lib
          /\ vizCalls' = e.calls
          /\ requests' = requests + FallbackRequests(o)
          /\ viz' = ToggleLoading(FALSE, e.viz).viz
          /\ loadingHidden' = ToggleLoading(FALSE, e.viz).hidden
          /\ response' = [response EXCEPT ![f] = e.response]
          /\ fdata' = [fdata EXCEPT ![f] = e.data]
          /\ fpath' = [fpath EXCEPT ![f] = e.path]
          /\ statsInfo' = StatsInfoAfter(e, statsInfo)
          /\ styleAdded' = (styleAdded \/ (e.path = "success" /\ Len(e.data) > 0))
    /\ fpc' = [fpc EXCEPT ![f] = "done"]
    /\ lastStep' = [kind |-> "settle", f |-> f]
    /\ UNCHANGED <<loaded, nTriggered, pendingAtStart, clientVars, colorVars>>

SettleSome == \E f \in Fetches : Settle(f)

Next == PageLoad \/ Click \/ SettleSome

Spec == Init /\ [][Next]_vars

\* ------------------------------------------------ claims about the client
\* the i-th bundled record as a PlayerRecord
BundledRecord(i) ==
    [id |-> MockRows[i].id, name |-> MockRows[i].name, team |-> MockRows[i].team,
     avg |-> MockRows[i].avg, atBats |-> MockRows[i].atBats, hits |-> MockRows[i].hits,
     homeRuns |-> MockRows[i].homeRuns, rbi |-> MockRows[i].rbi]

\* the body carries no result row at all
ZeroResultRows(body) ==
    \/ body.kind = "null"
    \/ /\ \A i \in DOMAIN body.stats : Len(body.stats[i].splits) = 0
       /\ Len(body.playerBattingStats) = 0

FailedOrEmpty(o) == o.kind # "ok" \/ ZeroResultRows(o.body)

\* C1: getPlayerBattingStats never rejects; when the transport call rejects,
\* the status is not success, or the body has zero result rows, it resolves
\* with the bundled payload, and extractBattingData gives from it exactly the
\* 30 bundled records, every avg within [0.260, 0.330].
C1_FallbackOnFailure ==
    /\ promise.state # "rejected"
    /\ (cpc \in {"fetched", "extracted"} /\ FailedOrEmpty(net))
          => promise = Fulfilled(GetMockBattingStats)
    /\ (cpc = "extracted" /\ FailedOrEmpty(net))
          => /\ Len(out) = 30
             /\ out = [i \in 1..30 |-> BundledRecord(i)]
             /\ \A i \in DOMAIN out :
                   out[i].avg.t = "number" /\ out[i].avg.n >= 260 /\ out[i].avg.n <= 330

C1_Witness ==
    /\ cpc = "extracted"
    /\ net.kind = "reject"
    /\ Len(out) = 30

\* C2: whatever the network call does, the list extractBattingData produces
\* from the value getPlayerBattingStats resolved with is non-empty.
C2_AlwaysAtLeastOneRecord ==
    cpc = "extracted" => Len(out) >= 1

\* the payload has the API shape: data.stats holds objects only, exactly one
\* of them is tagged 'hitting', and that one has a non-empty splits list
CleanApiShape(data) ==
    /\ data.kind = "object"
    /\ data.hasStats
    /\ \A i \in DOMAIN data.stats : data.stats[i].kind = "object"
    /\ Cardinality({i \in DOMAIN data.stats : data.stats[i].group = Str("hitting")}) = 1
    /\ \E i \in DOMAIN data.stats :
          /\ data.stats[i].group = Str("hitting")
          /\ data.stats[i].hasSplits
          /\ Len(data.stats[i].splits) > 0

\* the payload has the flat shape: a playerBattingStats list and no stats
FlatShape(data) ==
    /\ data.kind = "object"
    /\ ~data.hasStats
    /\ data.hasPBS

RecognizedShape(data) == CleanApiShape(data) \/ FlatShape(data)

\* the rows of a payload of a recognized shape
SourceRows(data) ==
    IF CleanApiShape(data)
    THEN data.stats[CHOOSE i \in DOMAIN data.stats : data.stats[i].group = Str("hitting")].splits
    ELSE data.playerBattingStats

Extracted == cpc \in {"extracted", "direct"}

WellTyped(rec) ==
    /\ IsString(rec.name)
    /\ IsString(rec.team)
    /\ IsFiniteNumber(rec.avg)
    /\ IsFiniteNumber(rec.atBats)
    /\ IsFiniteNumber(rec.hits)
    /\ IsFiniteNumber(rec.homeRuns)
    /\ IsFiniteNumber(rec.rbi)

\* C4: for every payload of a recognized shape, every record returned has a
\* string name, a string team and numeric (not string, missing or NaN) avg,
\* atBats, hits, homeRuns and rbi.
C4_RecordsWellTyped ==
    (Extracted /\ RecognizedShape(arg)) => \A i \in DOMAIN out : WellTyped(out[i])

\* the texts of the input rows that hold no number
Unparsable(v) == v \in {Str(".---"), Str("n/a")}
AbsentOrUnparsable(v) == v = Undef \/ Unparsable(v)

\* the record rec carries the defaults the row calls for
DefaultedApi(row, rec) ==
    /\ (row.player.fullName = Undef /\ row.player.lastName = Undef /\ row.player.name = Undef)
          => rec.name = Str("Unknown Player")
    /\ row.team.name = Undef => rec.team = Str("Unknown Team")
    /\ (AbsentOrUnparsable(row.stat.avg) /\ AbsentOrUnparsable(row.stat.battingAverage))
          => rec.avg = Num(0)
    /\ AbsentOrUnparsable(row.stat.atBats) => rec.atBats = Num(0)
    /\ AbsentOrUnparsable(row.stat.hits) => rec.hits = Num(0)
    /\ AbsentOrUnparsable(row.stat.homeRuns) => rec.homeRuns = Num(0)
    /\ AbsentOrUnparsable(row.stat.rbi) => rec.rbi = Num(0)

DefaultedFlat(row, rec) ==
    /\ row.name = Undef => rec.name = Str("Unknown Player")
    /\ row.team = Undef => rec.team = Str("Unknown Team")
    /\ AbsentOrUnparsable(row.avg) => rec.avg = Num(0)
    /\ AbsentOrUnparsable(row.atBats) => rec.atBats = Num(0)
    /\ AbsentOrUnparsable(row.hits) => rec.hits = Num(0)
    /\ AbsentOrUnparsable(row.homeRuns) => rec.homeRuns = Num(0)
    /\ AbsentOrUnparsable(row.rbi) => rec.rbi = Num(0)

\* C5: per-field defaulting: a row without any name field gives the name
\* "Unknown Player", a row without team gives "Unknown Team", and each of avg,
\* atBats, hits, homeRuns, rbi whose source value is absent or unparsable
\* gives 0.  (Stated for payloads of a single object row.)
C5_PerFieldDefaults ==
    (/\ Extracted
     /\ RecognizedShape(arg)
     /\ Len(SourceRows(arg)) = 1
     /\ SourceRows(arg)[1].kind = "object")
    => /\ Len(out) = 1
       /\ IF CleanApiShape(arg)
          THEN DefaultedApi(SourceRows(arg)[1], out[1])
          ELSE DefaultedFlat(SourceRows(arg)[1], out[1])

\* C6: a recognized payload with n rows gives exactly n records, also when
\* rows lack their player, team or stat sub-objects or are null or
\* non-objects.
C6_CorruptRowKeepsBatch ==
    (Extracted /\ RecognizedShape(arg)) => Len(out) = Len(SourceRows(arg))

\* C7: the records returned are in non-increasing avg order: no record comes
\* after one of strictly smaller avg.
C7_SortedByAvgDescending ==
    (Extracted /\ RecognizedShape(arg))
    => \A i, j \in DOMAIN out :
          (i < j /\ out[i].avg.t = "number" /\ out[j].avg.t = "number")
          => out[i].avg.n >= out[j].avg.n

\* --------------------------------------------------- claims about the page
\* the payload matches neither shape: no stats entry tagged 'hitting' with a
\* non-empty splits list, and no playerBattingStats list
NeitherShape(data) ==
    /\ data.kind = "object"
    /\ ~data.hasPBS
    /\ ~\E i \in DOMAIN data.stats :
          /\ data.stats[i].kind = "object"
          /\ data.stats[i].group = Str("hitting")
          /\ data.stats[i].hasSplits
          /\ Len(data.stats[i].splits) > 0

\* fetch f has just run to its end on a payload of neither shape
SettledOnNeitherShape(f) ==
    /\ lastStep = [kind |-> "settle", f |-> f]
    /\ NeitherShape(response[f])

\* fetch f is the only fetch of its time: none was in flight when it was
\* triggered and none was triggered after it
SingleFetch(f) == f = nTriggered /\ pendingAtStart[f] = {}

AllSettled == \A f \in Fetches : fpc[f] # "inflight"

\* the visualizer and the summary show the list data
Shows(data) ==
    /\ viz.hasData
    /\ viz.data = data
    /\ viz.visData \in SortOutcomes(Slice30(data))
    /\ viz.table \in SortOutcomes(viz.visData)
    /\ viz.legend = LegendEntries(viz.visData)
    /\ statsInfo = UpdateStatsInfo(data)

\* C8: when a fetch was triggered while an earlier one was in flight, then
\* once all have settled the chart, legend, table and summary show the data
\* of the most recently triggered fetch.
C8_StaleResponseNeverShown ==
    (/\ nTriggered >= 2
     /\ pendingAtStart[nTriggered] # {}
     /\ AllSettled
     /\ chartLib)
    => Shows(fdata[nTriggered])

\* C10: the canvas never carries more than one 'mouseleave' listener of the
\* visualizer.
C10_AtMostOneMouseLeaveListener ==
    viz.mouseleave <= 1

\* ------------------------------------------- claims about the visualizer
\* C9: at most one chart handle is live, and updateVisualization destroys
\* the previous handle before it constructs the new one (no handle is live
\* when the constructor runs).
C9_AtMostOneLiveChart ==
    /\ Cardinality(viz.live) <= 1
    /\ viz.liveAtNew = 0

C9_Witness ==
    /\ viz.created >= 2
    /\ viz.chart = viz.created
    /\ viz.live = {viz.chart}

\* bar i of the chart is shown in its original colors
ShownOriginal(i) ==
    /\ viz.backgroundColor[i] = viz.originalBackgroundColors[i]
    /\ viz.borderColor[i] = viz.originalBorderColors[i]

\* bar i of the chart is shown in the 0.2-opacity tint of its original colors
ShownTinted(i) ==
    /\ viz.backgroundColor[i] = FadeColor(viz.originalBackgroundColors[i]).value
    /\ viz.borderColor[i] = FadeColor(viz.originalBorderColors[i]).value
    /\ StartsWith(viz.backgroundColor[i], "rgba(")
    /\ StartsWith(viz.borderColor[i], "rgba(")

\* C11: on a rendered chart, after any hover and mouse-leave events, a bar
\* shows its original fill and border when no bar is hovered or its team is
\* the hovered bar's team, and the 0.2-opacity tint of its original colors
\* otherwise; with no bar hovered (so after a mouse-leave) the displayed
\* arrays are the original arrays.
C11_HoverColorsFromOriginals ==
    ChartOnPage(viz)
    => /\ \A i \in DOMAIN viz.visData :
             IF \/ viz.hovered = 0
                \/ viz.visData[i].team = viz.visData[viz.hovered].team
             THEN ShownOriginal(i)
             ELSE ShownTinted(i)
       /\ viz.hovered = 0
             => /\ viz.backgroundColor = viz.originalBackgroundColors
                /\ viz.borderColor = viz.originalBorderColors

\* chart, legend and table of a render are on the page
Rendered ==
    /\ viz.chart \in viz.live
    /\ viz.hasData
    /\ viz.container = <<CANVAS, LEGEND, TABLE>>

NonIncreasingAvg(list) ==
    \A i, j \in DOMAIN list : i < j => list[i].avg.n >= list[j].avg.n

C13_EmptyListRendersNoData ==
    /\ lastStep.kind # "updateVisualization threw"
    /\ (lastStep.kind = "updateVisualization returned" /\ viz.data = <<>>)
          => /\ viz.chart \notin viz.live
             /\ ~Contains(viz.container, LEGEND)
             /\ ~Contains(viz.container, TABLE)

\* ------------------------------------------------ claims about the summary
AllAvgNumeric(data) == \A i \in DOMAIN data : data[i].avg.t = "number"

\* the first record of data whose avg is the largest, and the smallest
FirstOfMaxAvg(data) ==
    data[CHOOSE i \in DOMAIN data :
            /\ \A j \in DOMAIN data : data[j].avg.n <= data[i].avg.n
            /\ \A j \in 1..(i - 1) : data[j].avg.n < data[i].avg.n]
FirstOfMinAvg(data) ==
    data[CHOOSE i \in DOMAIN data :
            /\ \A j \in DOMAIN data : data[j].avg.n >= data[i].avg.n
            /\ \A j \in 1..(i - 1) : data[j].avg.n > data[i].avg.n]

\* C14: in the summary the best batter is the first record of the input
\* list with the maximum avg, and the worst batter the first one with the
\* minimum avg.
C14_TiesKeepFirstOccurrence ==
    (statsInfo.kind = "stats" /\ AllAvgNumeric(statsInfo.data))
    => /\ statsInfo.bestBatter = FirstOfMaxAvg(statsInfo.data)
       /\ statsInfo.worstBatter = FirstOfMinAvg(statsInfo.data)

\* the means a and b, each a sum and a count, are the same number
SameMean(a, b) ==
    /\ a.nan = b.nan
    /\ a.count > 0
    /\ b.count > 0
    /\ a.sum * b.count = b.sum * a.count

\* C15: after a fetch has rendered, the league average of the summary is
\* the arithmetic mean of avg over the records the chart and the table
\* show.
C15_LeagueAverageOverDisplayed ==
    (/\ lastStep.kind = "settle"
     /\ fpath[lastStep.f] = "success"
     /\ statsInfo.kind = "stats")
    => /\ SameMean(statsInfo.avgBattingAvg, AvgBattingAvg(viz.visData))
       /\ SameMean(statsInfo.avgBattingAvg, AvgBattingAvg(viz.table))

\* ------------------------------------------- claims about the color lookup
FallbackPair == MLB_TEAM_COLORS["Unknown Team"]

\* C16: for every string name getTeamColors returns a {primary, secondary}
\* pair; for a name that is no key of the table the pair is the "Unknown
\* Team" pair; every call with the same name returns the same pair.
C16_TotalWithFallback ==
    \A k \in DOMAIN colors :
        /\ colors[k].primary # UndefinedColor
        /\ colors[k].secondary # UndefinedColor
        /\ teamName.s \notin DOMAIN MLB_TEAM_COLORS
              => /\ colors[k].primary = FallbackPair.primary
                 /\ colors[k].secondary = FallbackPair.secondary
        /\ colors[k] = colors[1]

\* ---------------------------------------------- claims about the controller
\* fetch f has just run to its end through the catch block
SettledOnFailure(f) ==
    /\ lastStep = [kind |-> "settle", f |-> f]
    /\ fpath[f] = "failure"

\* C17: when a step of fetchAndVisualizeData throws, the failure path leaves
\* the visualizer without a chart handle and the container with the error
\* message as its only child; the loading indicator is hidden and the
\* trigger has issued no request beyond its one.
C17_FailurePathLeavesErrorOnly ==
    \A f \in Fetches :
        SettledOnFailure(f)
        => /\ viz.chart = 0
           /\ viz.live = {}
           /\ viz.container = <<ERROR>>
           /\ loadingHidden
           /\ requests = nTriggered

\* the failure path ran after an earlier fetch had put a chart on the page
C17_Witness ==
    \E f \in Fetches :
        /\ SettledOnFailure(f)
        /\ viz.hasData
        /\ viz.created >= 1
        /\ viz.chart = 0
        /\ viz.container = <<ERROR>>

\* C18: for a single fetch the indicator is shown from the moment the
\* request is issued and as long as it has not settled, and during that time
\* the container holds the loading canvas only (no legend, no table, no
\* result of the fetch); once the request has settled and the function has
\* run to its end, on either path, the indicator is hidden.
C18_LoadingIndicatorLifecycle ==
    \A f \in Fetches :
        SingleFetch(f)
        => /\ fpc[f] = "inflight"
                 => /\ ~loadingHidden
                    /\ requests = f
                    /\ viz.container = <<CANVAS>>
                    /\ viz.legend = <<>>
                    /\ viz.table = <<>>
                    /\ fpath[f] = "none"
           /\ fpc[f] = "done"
                 => /\ loadingHidden
                    /\ fpath[f] \in {"success", "failure"}

C18_Witness ==
    /\ nTriggered = 2
    /\ SingleFetch(2)
    /\ fpath[1] = "success"
    /\ fpc[2] = "inflight"
    /\ viz.chart \in viz.live

\* C19: every fetch trigger (the automatic one and each click) issues
\* exactly one network request, and nothing else issues one, also when the
\* request failed and the bundled payload was used.
C19_OneRequestPerTrigger ==
    /\ requests = nTriggered
    /\ ~loaded => requests = 0

C19_Witness ==
    /\ nTriggered = 2
    /\ requests = 2
    /\ \E f \in Fetches : fpc[f] = "done" /\ response[f] = GetMockBattingStats

\* C20: clearObjects on a rendered visualizer releases the chart handle
\* (destroyed, this.chart null) and takes the team legend out of the
\* document.
C20_ClearObjectsRemovesLegend ==
    lastStep.kind = "clearObjects"
    => /\ viz.chart = 0
       /\ viz.live = {}
       /\ ~Contains(viz.container, LEGEND)

\* ------------------------------------ claims about the three-state machine
\* C21: every call the Controller makes on the Visualizer is a transition of
\* the three-state machine: showLoading is invoked in Idle or Rendered only,
\* updateVisualization in Loading or Rendered only, clearObjects in Rendered
\* only.
C21_CallsAreListedTransitions ==
    \A i \in DOMAIN vizCalls :
        /\ vizCalls[i].op = "showLoading" => vizCalls[i].in \in {"Idle", "Rendered"}
        /\ vizCalls[i].op = "updateVisualization"
              => vizCalls[i].in \in {"Loading", "Rendered"}
        /\ vizCalls[i].op = "clearObjects" => vizCalls[i].in = "Rendered"

\* how many children of the container carry the id x
Occurrences(seq, x) == Cardinality({i \in DOMAIN seq : seq[i] = x})

\* C22: after showLoading the container's children are exactly [canvas],
\* after an updateVisualization that returned they are exactly [canvas,
\* legend, table] in that order, and no call ever leaves a second canvas,
\* legend or table in the container.
C22_ContainerChildrenExact ==
    /\ lastStep.kind = "showLoading" => viz.container = <<CANVAS>>
    /\ lastStep.kind = "updateVisualization returned"
          => viz.container = <<CANVAS, LEGEND, TABLE>>
    /\ \A x \in {CANVAS, LEGEND, TABLE} : Occurrences(viz.container, x) <= 1

C22_Witness ==
    /\ lastStep.kind = "updateVisualization returned"
    /\ viz.created >= 2
    /\ viz.container = <<CANVAS, LEGEND, TABLE>>
    /\ Len(viz.legend) >= 2

\* ------------------------------------------------- claims about the legend
\* the primary color of the team named key: its entry of the table, or the
\* "Unknown Team" entry for a name the table does not have
PrimaryOf(key) ==
    IF key \in DOMAIN MLB_TEAM_COLORS
    THEN MLB_TEAM_COLORS[key].primary
    ELSE FallbackPair.primary

\* the distinct teams among the records displayed
DisplayedTeams == {TeamKey(viz.visData[i].team) : i \in DOMAIN viz.visData}

\* the legend has one entry per distinct displayed team, in ascending order
\* of team name
LegendOnePerTeamSorted ==
    /\ Len(viz.legend) = Cardinality(DisplayedTeams)
    /\ {viz.legend[i].team : i \in DOMAIN viz.legend} = DisplayedTeams
    /\ \A i, j \in DOMAIN viz.legend :
          i < j => StringLess(viz.legend[i].team, viz.legend[j].team)

\* C23: the legend built by updateVisualization has exactly one entry per
\* distinct team among the displayed records, the entries are in ascending
\* alphabetical order of team name, and each entry's swatch is that team's
\* primary color.
C23_LegendOnePerTeamSortedColored ==
    lastStep.kind = "updateVisualization returned"
    => /\ LegendOnePerTeamSorted
       /\ \A i \in DOMAIN viz.legend :
             viz.legend[i].color = PrimaryOf(viz.legend[i].team)

\* ------------------------------------- claims about the loading indicator
\* C24: with overlapping fetches the loading indicator is visible in every
\* state in which the request of at least one fetch is still in flight.
C24_IndicatorShownWhilePending ==
    (\E f \in Fetches : fpc[f] = "inflight") => ~loadingHidden

\* ------------------------------------------- claims about the chart handle
\* C25: this.chart is always null or the one live chart, and no resize,
\* update or destroy call is ever made on a handle that was already
\* destroyed.
C25_NoCallOnDestroyedHandle ==
    /\ viz.chart = 0 \/ viz.chart \in viz.live
    /\ ~viz.calledDestroyed

\* C26: showLoading leaves the chart handle, the stored dataset and the
\* stored original color arrays unchanged: on a rendered Visualizer the
\* previous chart is not released and stays live during the Loading state,
\* until the next updateVisualization or clearObjects.
C26_ShowLoadingKeepsChart ==
    [][lastStep'.kind = "showLoading"
          => /\ viz'.chart = viz.chart
             /\ viz'.live = viz.live
             /\ viz'.hasData = viz.hasData
             /\ viz'.data = viz.data
             /\ viz'.hasOriginal = viz.hasOriginal
             /\ viz'.originalBackgroundColors = viz.originalBackgroundColors
             /\ viz'.originalBorderColors = viz.originalBorderColors]_vars

C26_Witness ==
    /\ lastStep.kind = "showLoading"
    /\ viz.container = <<CANVAS>>
    /\ viz.chart \in viz.live
    /\ viz.hasOriginal
    /\ Len(viz.data) > 0

\* ------------------------------------------ claims about the summary panel
\* C27: the summary panel is written only by a fetch whose render succeeded:
\* the start of a fetch and the Controller's failure path both leave its
\* content unchanged.
C27_SummaryWrittenOnSuccessOnly ==
    [][(\/ lastStep'.kind = "start"
        \/ /\ lastStep'.kind = "settle"
           /\ fpath'[lastStep'.f] = "failure")
          => /\ statsInfo' = statsInfo
             /\ styleAdded' = styleAdded]_vars

\* the panel shows the statistics of an earlier fetch while the container
\* shows the error message of a later one
C27_Witness ==
    \E f \in Fetches :
        /\ SettledOnFailure(f)
        /\ viz.container = <<ERROR>>
        /\ statsInfo.kind = "stats"
        /\ \E g \in Fetches : g # f /\ fpath[g] = "success" /\ statsInfo.data = fdata[g]

\* the panel shows the statistics of an earlier fetch while the container
\* shows the loading placeholder
C27_WitnessLoading ==
    /\ lastStep.kind = "start"
    /\ viz.container = <<CANVAS>>
    /\ viz.canvasShows = "placeholder"
    /\ statsInfo.kind = "stats"

\* ------------------------------------- claims about the records displayed
\* fetch f has just run to its end on the success path
SettledOnSuccess(f) ==
    /\ lastStep = [kind |-> "settle", f |-> f]
    /\ fpath[f] = "success"

\* the record is one of the bars
Displayed(rec) == \E i \in DOMAIN viz.visData : viz.visData[i] = rec

C29_CallerListUnchanged ==
    lastStep.kind \in {"updateVisualization returned", "updateVisualization threw"}
    => /\ Len(vizCalls) = 1
       /\ vizCalls[1].op = "updateVisualization"
       /\ viz.data = vizCalls[1].arg

\* a list that was not in avg order was handed over and rendered in order
C29_Witness ==
    /\ lastStep.kind = "updateVisualization returned"
    /\ vizCalls[1].arg = RecordsUnsorted
    /\ viz.data = RecordsUnsorted
    /\ viz.visData # RecordsUnsorted
    /\ NonIncreasingAvg(viz.visData)

\* -------------------------------------------------- claims about fadeColor
\* c is '#' followed by six hex digits
SixDigitHex(c) ==
    /\ Len(c) = 7
    /\ SubSeq(c, 1, 1) = "#"
    /\ \A i \in 2..7 : SubSeq(c, i, i) \in HexDigits

\* the rgba form with opacity 0.2 of some colors of the table
KnownFaded ==
    [c \in {"#BD3039", "#0C2340", "#FFFFFF", "#0E3386", "#CC3433", "#666666", "#CCCCCC"} |->
        CASE c = "#BD3039" -> "rgba(189, 48, 57, 0.2)"
          [] c = "#0C2340" -> "rgba(12, 35, 64, 0.2)"
          [] c = "#FFFFFF" -> "rgba(255, 255, 255, 0.2)"
          [] c = "#0E3386" -> "rgba(14, 51, 134, 0.2)"
          [] c = "#CC3433" -> "rgba(204, 52, 51, 0.2)"
          [] c = "#666666" -> "rgba(102, 102, 102, 0.2)"
          [] c = "#CCCCCC" -> "rgba(204, 204, 204, 0.2)"]

\* C30: for every 6-digit hex color c of the team color table fadeColor(c)
\* is the rgba form of c with opacity 0.2, and fadeColor applied to it again
\* returns it unchanged.
C30_FadeColorIdempotent ==
    Len(faded) >= 2
    => /\ SixDigitHex(faded[1])
       /\ StartsWith(faded[2], "rgba(")
       /\ Len(faded[2]) >= 6
       /\ SubSeq(faded[2], Len(faded[2]) - 5, Len(faded[2])) = ", 0.2)"
       /\ faded[1] \in DOMAIN KnownFaded => faded[2] = KnownFaded[faded[1]]
       /\ \A k \in DOMAIN faded : k >= 2 => faded[k] = faded[2]

C30_Witness ==
    /\ Len(faded) >= 3
    /\ faded[1] = "#BD3039"
    /\ faded[3] = "rgba(189, 48, 57, 0.2)"

====
